---- MODULE Spec2Model ----
(***************************************************************************)
(* A model of lineword_PLUS.py: the variant expander, the date-token        *)
(* builder, the combination generator, the output writer, the size          *)
(* estimator and the orchestration of main().                               *)
(*                                                                          *)
(* A Python str is modelled as a sequence of one-character strings, so      *)
(* that len(), concatenation, lower()/upper()/capitalize(), strip() and     *)
(* re.split() are computed and not assumed: "t_1" is <<"t", "_", "1">>     *)
(* and "" is <<>>.                                                          *)
(***************************************************************************)
EXTENDS Integers, Sequences, FiniteSets, TLC

VARIABLES
    pc,        \* position of the program
    cfg,       \* the arguments of main() / generate_combinations (read-only)
    run,       \* 1 for the first run of the program, 2 for a second run on the same inputs
    first,     \* the output file as the first run left it
    bi,        \* generate_combinations: number of base words whose loop body has started
    vlist,     \* generate_combinations: list(variants) of the current base word
    pending,   \* generate_combinations: candidates of the current word not yet pulled
    yielded,   \* every candidate the generator has yielded so far, in order
    collected, \* main: the buffered list
    lines,     \* write_output: what is left of a list argument `lines`
    fromGen,   \* write_output: TRUE when `lines` is the generator itself
    w_unique,  \* write_output: its parameter unique
    w_limit,   \* write_output: its parameter limit
    seen,      \* write_output: the set seen
    written,   \* write_output: the counter written
    fexists,   \* whether the destination file exists
    file,      \* the lines of the destination file
    call,      \* arguments of a direct call of a pure function
    ret        \* its return value

vars == <<pc, cfg, run, first, bi, vlist, pending, yielded, collected, lines,
          fromGen, w_unique, w_limit, seen, written, fexists, file, call, ret>>

(***************************************************************************)
(* Bounds of the model.                                                     *)
(***************************************************************************)
MaxLimit == 2
MaxMinLen == 2
MaxLines == 4
MaxCount == 2
MaxYearSpan == 7
MaxCap == 4
MaxWordLen == 2

(***************************************************************************)
(* Generic helpers.                                                         *)
(***************************************************************************)
Range(s) == {s[i] : i \in 1..Len(s)}

Min(a, b) == IF a <= b THEN a ELSE b

Max(a, b) == IF a >= b THEN a ELSE b

RECURSIVE FlattenFrom(_, _)
FlattenFrom(ss, i) ==
    IF i > Len(ss) THEN <<>> ELSE ss[i] \o FlattenFrom(ss, i + 1)

\* the items of nested for loops, in iteration order
Flatten(ss) == FlattenFrom(ss, 1)

\* every sequence of length 0..n over S
SeqsUpTo(S, n) == UNION {[1..k -> S] : k \in 0..n}

(***************************************************************************)
(* str methods.                                                             *)
(***************************************************************************)
LowerLetters == <<"a", "b", "e", "i", "o", "s", "t", "x">>

UpperLetters == <<"A", "B", "E", "I", "O", "S", "T", "X">>

LowerChar(c) ==
    IF \E k \in 1..Len(UpperLetters) : UpperLetters[k] = c
    THEN LowerLetters[CHOOSE k \in 1..Len(UpperLetters) : UpperLetters[k] = c]
    ELSE c

UpperChar(c) ==
    IF \E k \in 1..Len(LowerLetters) : LowerLetters[k] = c
    THEN UpperLetters[CHOOSE k \in 1..Len(LowerLetters) : LowerLetters[k] = c]
    ELSE c

Lower(w) == [i \in 1..Len(w) |-> LowerChar(w[i])]

Upper(w) == [i \in 1..Len(w) |-> UpperChar(w[i])]

Capitalize(w) ==
    [i \in 1..Len(w) |-> IF i = 1 THEN UpperChar(w[i]) ELSE LowerChar(w[i])]

IsSpace(c) == c = " "

RECURSIVE LStrip(_)
LStrip(w) ==
    IF w # <<>> /\ IsSpace(Head(w)) THEN LStrip(Tail(w)) ELSE w

RECURSIVE RStrip(_)
RStrip(w) ==
    IF w # <<>> /\ IsSpace(w[Len(w)]) THEN RStrip(SubSeq(w, 1, Len(w) - 1)) ELSE w

Strip(w) == RStrip(LStrip(w))

Digits == <<"0", "1", "2", "3", "4", "5", "6", "7", "8", "9">>

\* str(y) of a non-negative int
RECURSIVE Str(_)
Str(n) ==
    IF n < 10 THEN <<Digits[n + 1]>> ELSE Str(n \div 10) \o <<Digits[(n % 10) + 1]>>

\* first-occurrence-order deduplication, list(dict.fromkeys(xs))
RECURSIVE DictFromKeysFrom(_, _, _)
DictFromKeysFrom(xs, i, keys) ==
    IF i > Len(xs) THEN <<>>
    ELSE IF xs[i] \in keys THEN DictFromKeysFrom(xs, i + 1, keys)
    ELSE <<xs[i]>> \o DictFromKeysFrom(xs, i + 1, keys \cup {xs[i]})

DictFromKeysKeepAll(xs) == xs

DictFromKeys(xs) == DictFromKeysFrom(xs, 1, {})

(***************************************************************************)
(* generate_leet_variants                                                   *)
(***************************************************************************)
DefaultMaxVariants == 32

\* DEFAULT_LEET_MAP.get(ch, [ch])
LeetPool(ch) ==
    CASE ch = "a" -> <<"a", "4", "@">>
      [] ch = "e" -> <<"e", "3">>
      [] ch = "i" -> <<"i", "1", "!">>
      [] ch = "o" -> <<"o", "0">>
      [] ch = "s" -> <<"s", "5", "$">>
      [] ch = "t" -> <<"t", "7">>
      [] OTHER -> <<ch>>

\* itertools.product(*pools): the first pool varies slowest
RECURSIVE Product(_)
Product(pools) ==
    IF pools = <<>> THEN << <<>> >>
    ELSE LET rest == Product(Tail(pools))
             pool == Head(pools)
         IN Flatten([i \in 1..Len(pool) |->
                       [j \in 1..Len(rest) |-> <<pool[i]>> \o rest[j]]])

LeetPools(word) == [i \in 1..Len(word) |-> LeetPool(Lower(word)[i])]

\* the loop of lines 70-75: yield, count, and only then compare with the cap
RECURSIVE LeetLoop(_, _, _, _)
LeetLoop(prods, i, count, max_variants) ==
    IF i > Len(prods) THEN <<>>
    ELSE <<prods[i]>> \o
         (IF count + 1 >= max_variants THEN <<>>
          ELSE LeetLoop(prods, i + 1, count + 1, max_variants))

generate_leet_variants(word, max_variants) ==
    LeetLoop(Product(LeetPools(word)), 1, 0, max_variants)

(***************************************************************************)
(* case_variants and re_split                                               *)
(***************************************************************************)
IsDelim(c) == c \in {"-", ".", "_"} \/ IsSpace(c)

\* re.split(r"[\-\._\s]+", s)
RECURSIVE re_split_from(_, _, _, _)
re_split_from(s, i, cur, inRun) ==
    IF i > Len(s) THEN <<cur>>
    ELSE IF IsDelim(s[i])
         THEN IF inRun THEN re_split_from(s, i + 1, cur, TRUE)
              ELSE <<cur>> \o re_split_from(s, i + 1, <<>>, TRUE)
         ELSE re_split_from(s, i + 1, Append(cur, s[i]), FALSE)

re_split(s) == re_split_from(s, 1, <<>>, FALSE)

HasHyphenOrUnderscore(word) == \E i \in 1..Len(word) : word[i] \in {"-", "_"}

Parts(word) == SelectSeq(re_split(word), LAMBDA p : p # <<>>)

Camel(word) == Flatten([i \in 1..Len(Parts(word)) |-> Capitalize(Parts(word)[i])])

case_variants(word) ==
    {word, Lower(word), Upper(word), Capitalize(word)}
        \cup (IF HasHyphenOrUnderscore(word) /\ Parts(word) # <<>>
              THEN {Camel(word)} ELSE {})

(***************************************************************************)
(* build_dates                                                              *)
(***************************************************************************)
YearDates(y) ==
    <<y, <<"0", "1">> \o y, y \o <<"0", "1">>,
      <<"0", "1", "0", "1">>, <<"1", "0", "1", "0">>>>

\* lines 96-101: seen-set and append-if-new
RECURSIVE SeenLoop(_, _, _)
SeenLoop(dates, i, seenDates) ==
    IF i > Len(dates) THEN <<>>
    ELSE IF dates[i] \in seenDates THEN SeenLoop(dates, i + 1, seenDates)
    ELSE <<dates[i]>> \o SeenLoop(dates, i + 1, seenDates \cup {dates[i]})

build_dates_no_dedup(start, end) ==
    Flatten([k \in 1..(end - start + 1) |-> YearDates(Str(start + k - 1))])

build_dates(start, end) ==
    SeenLoop(Flatten([k \in 1..(end - start + 1) |-> YearDates(Str(start + k - 1))]),
             1, {})

(***************************************************************************)
(* estimate_count                                                           *)
(***************************************************************************)
estimate_count_raw(base_words, numbers, symbols, prefixes, suffixes, yrs, mode) ==
    LET bw == Len(base_words)
        n == Len(numbers)
        s == Len(symbols)
        p == Len(prefixes)
        suf == Len(suffixes)
        y == Len(yrs)
    IN IF mode = "basic"
       THEN bw * (p * suf) * (1 + n + y)
       ELSE bw * (p * suf) * (1 + n * (1 + s) + y * (1 + s))

estimate_count(base_words, numbers, symbols, prefixes, suffixes, yrs, mode) ==
    LET bw == Len(base_words)
        n == IF numbers # <<>> THEN Len(numbers) ELSE 1
        s == IF symbols # <<>> THEN Len(symbols) ELSE 1
        p == IF prefixes # <<>> THEN Len(prefixes) ELSE 1
        suf == IF suffixes # <<>> THEN Len(suffixes) ELSE 1
        y == Max(1, Len(yrs))
    IN IF mode = "basic"
       THEN bw * (p * suf) * (1 + n + y)
       ELSE bw * (p * suf) * (1 + n * (1 + s) + y * (1 + s))

(***************************************************************************)
(* generate_combinations                                                    *)
(***************************************************************************)
DefaultMaxLen == 64

CleanWordsKeepBlank(base_words) ==
    DictFromKeys([i \in 1..Len(base_words) |-> Strip(base_words[i])])

\* line 116: strip, drop the blank words, deduplicate by first occurrence
CleanWords(base_words) ==
    DictFromKeys(SelectSeq([i \in 1..Len(base_words) |-> Strip(base_words[i])],
                           LAMBDA w : w # <<>>))

\* lines 120-124: the set the generator iterates; case_variants is not called
Variants(base, use_leet) ==
    {base, Lower(base), Upper(base), Capitalize(base)}
        \cup (IF use_leet
              THEN LET lvs == Range(generate_leet_variants(base, DefaultMaxVariants))
                   IN lvs \cup {Capitalize(lv) : lv \in lvs}
              ELSE {})

\* list(variants): a set has no order of its own; every enumeration is possible
Orders(S) ==
    {q \in [1..Cardinality(S) -> S] :
        \A i, j \in 1..Cardinality(S) : i # j => q[i] # q[j]}

AdmitMaxOnly(c, min_len, max_len) == Len(c) <= max_len

\* min_len <= len(c) <= max_len
Admit(c, min_len, max_len) == min_len <= Len(c) /\ Len(c) <= max_len

\* if min_len <= len(c) <= max_len: yield c
Emit(c, a) == IF Admit(c, a.min_len, a.max_len) THEN <<c>> ELSE <<>>

\* lines 129-140
BasicCombos(core, a) ==
    Emit(core, a)
    \o Flatten([n \in 1..Len(a.numbers) |->
          Flatten([s \in 1..Len(a.separators) |->
             Emit(IF a.numbers[n] # <<>>
                  THEN core \o a.separators[s] \o a.numbers[n]
                  ELSE core, a)])])
    \o Flatten([d \in 1..Len(a.year_tokens) |-> Emit(core \o a.year_tokens[d], a)])

\* lines 141-162
FullCombos(core, a) ==
    Emit(core, a)
    \o Flatten([s \in 1..Len(a.separators) |->
          Flatten([n \in 1..Len(a.numbers) |->
             Emit(IF a.numbers[n] # <<>>
                  THEN core \o a.separators[s] \o a.numbers[n]
                  ELSE core, a)
             \o Flatten([y \in 1..Len(a.symbols) |->
                   IF a.symbols[y] # <<>>
                   THEN Emit(IF a.numbers[n] # <<>>
                             THEN core \o a.symbols[y] \o a.separators[s] \o a.numbers[n]
                             ELSE core \o a.symbols[y], a)
                   ELSE <<>>])])])
    \o Flatten([d \in 1..Len(a.year_tokens) |->
          Emit(core \o a.year_tokens[d], a)
          \o Flatten([y \in 1..Len(a.symbols) |->
                IF a.symbols[y] # <<>>
                THEN Emit(core \o a.year_tokens[d] \o a.symbols[y], a)
                ELSE <<>>])])

\* lines 125-162: everything one base word yields, for one order of its variants
WordCombos(vl, a) ==
    Flatten([v \in 1..Len(vl) |->
       Flatten([p \in 1..Len(a.prefixes) |->
          Flatten([s \in 1..Len(a.suffixes) |->
             LET core == a.prefixes[p] \o vl[v] \o a.suffixes[s]
             IN IF a.mode = "basic" THEN BasicCombos(core, a)
                ELSE FullCombos(core, a)])])])

Words == CleanWords(cfg.base_words)

GenExhausted == pending = <<>> /\ bi >= Len(Words)

(***************************************************************************)
(* main, lines 233-258, and write_output                                    *)
(***************************************************************************)
\* random.shuffle: any permutation of the list
Shuffles(xs) ==
    {[i \in 1..Len(xs) |-> xs[p[i]]] : p \in Permutations(1..Len(xs))}

\* collected[: limit] for limit >= 0
Slice(xs, limit) == SubSeq(xs, 1, Min(limit, Len(xs)))

LimitReachedLate(limit, n) == limit # 0 /\ n > limit

\* if limit and written >= limit: break
LimitReached(limit, n) == limit # 0 /\ n >= limit

HasItem == IF fromGen THEN pending # <<>> ELSE lines # <<>>

Item == IF fromGen THEN Head(pending) ELSE Head(lines)

NoMoreItems == IF fromGen THEN GenExhausted ELSE lines = <<>>

\* the generator resumes: the loop body of the next base word starts
GenNextWord ==
    /\ pc = "collect" \/ (pc = "write" /\ fromGen)
    /\ pending = <<>>
    /\ bi < Len(Words)
    /\ \E ord \in Orders(Variants(Words[bi + 1], cfg.use_leet)) :
          /\ vlist' = ord
          /\ pending' = WordCombos(ord, cfg)
    /\ bi' = bi + 1
    /\ UNCHANGED <<pc, cfg, run, first, yielded, collected, lines, fromGen,
                   w_unique, w_limit, seen, written, fexists, file, call, ret>>

\* line 234, true branch
StartBuffered ==
    /\ pc = "main"
    /\ cfg.shuffle \/ cfg.unique
    /\ collected' = <<>>
    /\ pc' = "collect"
    /\ UNCHANGED <<cfg, run, first, bi, vlist, pending, yielded, lines, fromGen,
                   w_unique, w_limit, seen, written, fexists, file, call, ret>>

\* line 234, else branch: write_output(gen_iter, ..., unique=args.unique, limit=args.limit)
StartStreaming ==
    /\ pc = "main"
    /\ ~(cfg.shuffle \/ cfg.unique)
    /\ fromGen' = TRUE
    /\ lines' = <<>>
    /\ w_unique' = cfg.unique
    /\ w_limit' = cfg.limit
    /\ pc' = "open"
    /\ UNCHANGED <<cfg, run, first, bi, vlist, pending, yielded, collected,
                   seen, written, fexists, file, call, ret>>

\* lines 242-245: one iteration of the collecting loop
Collect ==
    /\ pc = "collect"
    /\ pending # <<>>
    /\ collected' = Append(collected, Head(pending))
    /\ yielded' = Append(yielded, Head(pending))
    /\ pending' = Tail(pending)
    /\ pc' = IF cfg.limit # 0 /\ Len(collected') >= cfg.limit * 2
             THEN "post" ELSE "collect"
    /\ UNCHANGED <<cfg, run, first, bi, vlist, lines, fromGen,
                   w_unique, w_limit, seen, written, fexists, file, call, ret>>

\* the generator is exhausted: the collecting loop ends
CollectEnd ==
    /\ pc = "collect"
    /\ GenExhausted
    /\ pc' = "post"
    /\ UNCHANGED <<cfg, run, first, bi, vlist, pending, yielded, collected, lines,
                   fromGen, w_unique, w_limit, seen, written, fexists, file, call, ret>>

\* lines 246-252: deduplicate, shuffle, truncate, call write_output(unique=False, limit=0)
PostProcess ==
    /\ pc = "post"
    /\ LET c1 == IF cfg.unique THEN DictFromKeys(collected) ELSE collected
       IN \E c2 \in (IF cfg.shuffle THEN Shuffles(c1) ELSE {c1}) :
             LET c3 == IF cfg.limit # 0 THEN Slice(c2, cfg.limit) ELSE c2
             IN /\ collected' = c3
                /\ lines' = c3
    /\ fromGen' = FALSE
    /\ w_unique' = FALSE
    /\ w_limit' = 0
    /\ pc' = "open"
    /\ UNCHANGED <<cfg, run, first, bi, vlist, pending, yielded,
                   seen, written, fexists, file, call, ret>>

\* lines 164-169: the destination is opened for writing, which creates or empties it
OpenOutput ==
    /\ pc = "open"
    /\ seen' = {}
    /\ written' = 0
    /\ fexists' = TRUE
    /\ file' = <<>>
    /\ pc' = "write"
    /\ UNCHANGED <<cfg, run, first, bi, vlist, pending, yielded, collected, lines,
                   fromGen, w_unique, w_limit, call, ret>>

\* lines 170-180: one iteration of the writing loop
WriteStep ==
    /\ pc = "write"
    /\ HasItem
    /\ IF fromGen
       THEN /\ pending' = Tail(pending)
            /\ yielded' = Append(yielded, Head(pending))
            /\ UNCHANGED lines
       ELSE /\ lines' = Tail(lines)
            /\ UNCHANGED <<pending, yielded>>
    /\ IF w_unique /\ Item \in seen
       THEN UNCHANGED <<seen, file, written, pc>>
       ELSE /\ seen' = IF w_unique THEN seen \cup {Item} ELSE seen
            /\ file' = Append(file, Item)
            /\ written' = written + 1
            /\ pc' = IF LimitReached(w_limit, written') THEN "done" ELSE "write"
    /\ UNCHANGED <<cfg, run, first, bi, vlist, collected, fromGen,
                   w_unique, w_limit, fexists, call, ret>>

\* the iterable is exhausted: the file is closed and written is returned
WriteEnd ==
    /\ pc = "write"
    /\ NoMoreItems
    /\ pc' = "done"
    /\ UNCHANGED <<cfg, run, first, bi, vlist, pending, yielded, collected, lines,
                   fromGen, w_unique, w_limit, seen, written, fexists, file, call, ret>>

\* the program is started again on the same arguments, the destination file still on disk
Rerun ==
    /\ pc = "done"
    /\ run = 1
    /\ ~cfg.shuffle
    /\ run' = 2
    /\ first' = file
    /\ pc' = "main"
    /\ bi' = 0
    /\ vlist' = <<>>
    /\ pending' = <<>>
    /\ yielded' = <<>>
    /\ collected' = <<>>
    /\ lines' = <<>>
    /\ fromGen' = FALSE
    /\ w_unique' = FALSE
    /\ w_limit' = 0
    /\ seen' = {}
    /\ written' = 0
    /\ UNCHANGED <<cfg, fexists, file, call, ret>>

(***************************************************************************)
(* The inputs of the runs.                                                  *)
(***************************************************************************)
Empty == <<>>

MinimalTokens ==
    [numbers |-> <<Empty>>, symbols |-> <<Empty>>, separators |-> <<Empty>>,
     prefixes |-> <<Empty>>, suffixes |-> <<Empty>>, year_tokens |-> <<>>]

\* the shape of the defaults: "" first, a repeated "" separator
DefaultLikeTokens ==
    [numbers |-> <<Empty, <<"1">>>>, symbols |-> <<Empty, <<"!">>>>,
     separators |-> <<Empty, Empty, <<"-">>>>,
     prefixes |-> <<Empty>>, suffixes |-> <<Empty>>,
     year_tokens |-> <<<<"0", "1", "0", "1">>>>]

AffixTokens ==
    [numbers |-> <<<<"1">>>>, symbols |-> <<<<"!">>>>, separators |-> <<<<"_">>>>,
     prefixes |-> <<Empty, <<"x">>>>, suffixes |-> <<<<"x">>, Empty>>,
     year_tokens |-> <<>>]

NoTokens ==
    [numbers |-> <<>>, symbols |-> <<>>, separators |-> <<>>,
     prefixes |-> <<Empty>>, suffixes |-> <<Empty>>, year_tokens |-> <<>>]

WordLists ==
    { <<>>,
      << <<" ">> >>,
      << <<"t">> >>,
      << <<"t", "_">> >>,
      << <<"b", "-", "b">> >>,
      << <<" ", "t">>, <<"1">>, <<"t">> >> }

MakeConfig(w, t, m, leet, lo, hi, u, sh, lim) ==
    [base_words |-> w, numbers |-> t.numbers, symbols |-> t.symbols,
     separators |-> t.separators, prefixes |-> t.prefixes, suffixes |-> t.suffixes,
     year_tokens |-> t.year_tokens, use_leet |-> leet, mode |-> m,
     min_len |-> lo, max_len |-> hi, unique |-> u, shuffle |-> sh, limit |-> lim]

\* the generator's inputs varied, written through the streaming path
GeneratorConfigs ==
    {MakeConfig(w, t, m, leet, lo, hi, FALSE, FALSE, 0) :
        w \in WordLists,
        t \in {MinimalTokens, DefaultLikeTokens, AffixTokens, NoTokens},
        m \in {"basic", "full"}, leet \in BOOLEAN,
        lo \in 0..MaxMinLen,
        hi \in {MaxMinLen - 1, MaxMinLen + 1, DefaultMaxLen}}

\* the output options varied; a shuffle of a long list is left out
SinkConfigs ==
    {c \in {MakeConfig(w, t, "basic", FALSE, 0, DefaultMaxLen, u, sh, lim) :
               w \in {<<>>, << <<" ">> >>, << <<"t">> >>},
               t \in {MinimalTokens, DefaultLikeTokens},
               u \in BOOLEAN, sh \in BOOLEAN, lim \in 0..MaxLimit} :
        c.shuffle => (c.limit > 0 \/ c.year_tokens = <<>>)}

Configs == GeneratorConfigs \cup SinkConfigs

NoCall == <<>>

PipelineIdle ==
    /\ cfg = <<>>
    /\ run = 1
    /\ first = <<>>
    /\ bi = 0
    /\ vlist = <<>>
    /\ pending = <<>>
    /\ yielded = <<>>
    /\ collected = <<>>

WriterIdle ==
    /\ lines = <<>>
    /\ fromGen = FALSE
    /\ w_unique = FALSE
    /\ w_limit = 0
    /\ seen = {}
    /\ written = 0
    /\ fexists = FALSE
    /\ file = <<>>

Init ==
    /\ pc = "main"
    /\ cfg \in Configs
    /\ run = 1
    /\ first = <<>>
    /\ bi = 0
    /\ vlist = <<>>
    /\ pending = <<>>
    /\ yielded = <<>>
    /\ collected = <<>>
    /\ WriterIdle
    /\ call = NoCall
    /\ ret = <<>>

Next ==
    \/ StartBuffered
    \/ StartStreaming
    \/ GenNextWord
    \/ Collect
    \/ CollectEnd
    \/ PostProcess
    \/ OpenOutput
    \/ WriteStep
    \/ WriteEnd
    \/ Rerun

Spec == Init /\ [][Next]_vars

(***************************************************************************)
(* write_output called on its own, on any list of lines.                    *)
(***************************************************************************)
LineValues == {<<"t">>, <<"T">>, <<"t", "1">>}

InitWrite ==
    /\ pc = "open"
    /\ call \in [lines : SeqsUpTo(LineValues, MaxLines),
                 unique : BOOLEAN, limit : 0..MaxLimit]
    /\ lines = call.lines
    /\ fromGen = FALSE
    /\ w_unique = call.unique
    /\ w_limit = call.limit
    /\ seen = {}
    /\ written = 0
    /\ fexists = FALSE
    /\ file = <<>>
    /\ PipelineIdle
    /\ ret = <<>>

NextWrite ==
    \/ OpenOutput
    \/ WriteStep
    \/ WriteEnd

SpecWrite == InitWrite /\ [][NextWrite]_vars

(***************************************************************************)
(* estimate_count, build_dates and generate_leet_variants called on their   *)
(* own.                                                                     *)
(***************************************************************************)
TokenList(k) == [i \in 1..k |-> Str(i)]

CountLists == {TokenList(k) : k \in 0..MaxCount}

InitEstimate ==
    /\ pc = "call"
    /\ call \in [base_words : CountLists, numbers : CountLists, symbols : CountLists,
                 prefixes : CountLists, suffixes : CountLists, yrs : CountLists,
                 mode : {"basic", "full"}]
    /\ ret = <<>>
    /\ PipelineIdle
    /\ WriterIdle

EstimateCall ==
    /\ pc = "call"
    /\ ret' = estimate_count(call.base_words, call.numbers, call.symbols,
                            call.prefixes, call.suffixes, call.yrs, call.mode)
    /\ pc' = "done"
    /\ UNCHANGED <<cfg, run, first, bi, vlist, pending, yielded, collected, lines,
                   fromGen, w_unique, w_limit, seen, written, fexists, file, call>>

SpecEstimate == InitEstimate /\ [][EstimateCall]_vars

Years == 2019..(2019 + MaxYearSpan)

InitDates ==
    /\ pc = "call"
    /\ call \in [start : Years, end : Years]
    /\ ret = <<>>
    /\ PipelineIdle
    /\ WriterIdle

DatesCall ==
    /\ pc = "call"
    /\ ret' = build_dates(call.start, call.end)
    /\ pc' = "done"
    /\ UNCHANGED <<cfg, run, first, bi, vlist, pending, yielded, collected, lines,
                   fromGen, w_unique, w_limit, seen, written, fexists, file, call>>

SpecDates == InitDates /\ [][DatesCall]_vars

TestTest == <<"t", "e", "s", "t", "t", "e", "s", "t">>

InitLeet ==
    /\ pc = "call"
    /\ call \in [word : SeqsUpTo({"a", "t", "T", "b"}, MaxWordLen) \cup {TestTest},
                 max_variants : (0..MaxCap) \cup {DefaultMaxVariants}]
    /\ ret = <<>>
    /\ PipelineIdle
    /\ WriterIdle

LeetCall ==
    /\ pc = "call"
    /\ ret' = generate_leet_variants(call.word, call.max_variants)
    /\ pc' = "done"
    /\ UNCHANGED <<cfg, run, first, bi, vlist, pending, yielded, collected, lines,
                   fromGen, w_unique, w_limit, seen, written, fexists, file, call>>

SpecLeet == InitLeet /\ [][LeetCall]_vars

(***************************************************************************)
(* The properties.                                                          *)
(***************************************************************************)
NoRepeats(s) == \A i, j \in 1..Len(s) : i # j => s[i] # s[j]

FirstIndex(x, s) == CHOOSE i \in 1..Len(s) : s[i] = x /\ \A j \in 1..(i - 1) : s[j] # x

\* every candidate the generator can yield for cfg, whatever the order of the variants
AllCandidates ==
    UNION {Range(WordCombos(<<v>>, cfg)) :
             v \in UNION {Variants(Words[i], cfg.use_leet) : i \in 1..Len(Words)}}

\* C1: every string generate_combinations yields, or is about to yield, has a
\* length between min_len and max_len; so nothing is yielded when min_len > max_len.
C1_LengthFilter ==
    pc \in {"main", "collect", "post", "open", "write", "done"} =>
        \A c \in Range(yielded) \cup Range(pending) :
            cfg.min_len <= Len(c) /\ Len(c) <= cfg.max_len

C1_Witness ==
    /\ pc = "done"
    /\ Len(yielded) > 1
    /\ cfg.min_len > 1
    /\ cfg.max_len < DefaultMaxLen
    /\ cfg.mode = "full"
    /\ cfg.use_leet

\* C2: with shuffle off, a second run on the same inputs leaves the same output
\* file, line for line, as the first run.
C2_Deterministic ==
    (pc = "done" /\ run = 2 /\ ~cfg.shuffle) => file = first

\* C3: write_output returns the number of lines in the file; with limit > 0 that is
\* min(limit, surviving candidates), with limit = 0 every surviving candidate, where
\* with unique the surviving candidates are the distinct ones.
C3_WriteLimit ==
    (pc = "done" /\ call # NoCall) =>
        LET survivors == IF call.unique THEN Cardinality(Range(call.lines))
                         ELSE Len(call.lines)
        IN /\ written = Len(file)
           /\ written = IF call.limit > 0 THEN Min(call.limit, survivors)
                        ELSE survivors

C3_Witness ==
    /\ pc = "done"
    /\ call # NoCall
    /\ call.unique
    /\ call.limit = 2
    /\ Len(call.lines) = 4
    /\ call.lines[1] = call.lines[2]
    /\ Cardinality(Range(call.lines)) = 3
    /\ written = 2

\* C4: with unique and limit 0 the file has no repeated line, holds exactly the
\* distinct generated candidates, in first-occurrence order when shuffle is off,
\* and the count written is the number of distinct candidates.
C4_UniqueOutput ==
    (pc = "done" /\ cfg.unique /\ cfg.limit = 0) =>
        /\ GenExhausted
        /\ NoRepeats(file)
        /\ Range(file) = Range(yielded)
        /\ written = Len(file)
        /\ written = Cardinality(Range(yielded))
        /\ ~cfg.shuffle =>
              \A i, j \in 1..Len(file) :
                 i < j => FirstIndex(file[i], yielded) < FirstIndex(file[j], yielded)

C4_Witness ==
    /\ pc = "done"
    /\ cfg.unique
    /\ cfg.limit = 0
    /\ ~cfg.shuffle
    /\ Len(file) > 2
    /\ Len(yielded) > Len(file)

\* C5: in the buffered path with unique and limit L > 0 the output has
\* min(L, number of distinct candidates) lines.
C5_BufferedFull ==
    (pc = "done" /\ cfg.unique /\ cfg.limit > 0) =>
        Len(file) = Min(cfg.limit, Cardinality(AllCandidates))

OneIfEmpty(xs) == IF Len(xs) = 0 THEN 1 ELSE Len(xs)

\* C6 (amended): estimate_count returns the product formula of the two modes with
\* every token-set cardinality except the base word count replaced by 1 when the
\* set is empty.
C6_EstimateFormula ==
    pc = "done" =>
        LET bw == Len(call.base_words)
            n == OneIfEmpty(call.numbers)
            s == OneIfEmpty(call.symbols)
            p == OneIfEmpty(call.prefixes)
            f == OneIfEmpty(call.suffixes)
            y == OneIfEmpty(call.yrs)
        IN ret = IF call.mode = "basic"
                 THEN bw * p * f * (1 + n + y)
                 ELSE bw * p * f * (1 + n * (1 + s) + y * (1 + s))

C6_Witness ==
    /\ pc = "done"
    /\ call.numbers = <<>>
    /\ call.yrs = <<>>
    /\ call.mode = "full"
    /\ Len(call.symbols) = 2
    /\ ret = 7

\* C6 as claimed: the product formula over the plain cardinalities, empty sets included.
C6_AsClaimed ==
    pc = "done" =>
        LET bw == Len(call.base_words)
            n == Len(call.numbers)
            s == Len(call.symbols)
            p == Len(call.prefixes)
            f == Len(call.suffixes)
            y == Len(call.yrs)
        IN ret = IF call.mode = "basic"
                 THEN bw * p * f * (1 + n + y)
                 ELSE bw * p * f * (1 + n * (1 + s) + y * (1 + s))

Tok2020 == <<"2", "0", "2", "0">>

Tok2021 == <<"2", "0", "2", "1">>

Tok01 == <<"0", "1">>

\* C7 (amended): build_dates(2020, 2021) returns "2020", "012020", "202001", "0101",
\* "1010", "2021", "012021", "202101": the tokens of both years in first-occurrence
\* order, "0101" and "1010" once.
C7_Dates ==
    (pc = "done" /\ call.start = 2020 /\ call.end = 2021) =>
        ret = <<Tok2020, Tok01 \o Tok2020, Tok2020 \o Tok01,
                <<"0", "1", "0", "1">>, <<"1", "0", "1", "0">>,
                Tok2021, Tok01 \o Tok2021, Tok2021 \o Tok01>>

C7_Witness ==
    /\ pc = "done"
    /\ call.start = 2020
    /\ call.end = 2021
    /\ Len(ret) = 8
    /\ ret[8] = Tok2021 \o Tok01

\* C7 as claimed: the sequence ends with "012021", seven tokens in all.
C7_AsClaimed ==
    (pc = "done" /\ call.start = 2020 /\ call.end = 2021) =>
        ret = <<Tok2020, Tok01 \o Tok2020, Tok2020 \o Tok01,
                <<"0", "1", "0", "1">>, <<"1", "0", "1", "0">>,
                Tok2021, Tok01 \o Tok2021>>

\* C8: for every cap max_variants >= 0, generate_leet_variants yields exactly
\* min(max_variants, size of the substitution product) strings, so at most max_variants.
C8_LeetCap ==
    pc = "done" =>
        /\ Len(ret) <= call.max_variants
        /\ Len(ret) = Min(call.max_variants, Len(Product(LeetPools(call.word))))

\* C9: for a base word with a hyphen or underscore and a non-empty part, the
\* variants the generator iterates contain the camel form.
C9_CamelVariant ==
    (pc \in {"collect", "post", "open", "write", "done"} /\ bi >= 1
       /\ HasHyphenOrUnderscore(Words[bi]) /\ Parts(Words[bi]) # <<>>) =>
        Camel(Words[bi]) \in Range(vlist)

AllBlank(ws) == \A i \in 1..Len(ws) : \A k \in 1..Len(ws[i]) : ws[i][k] = " "

\* C10: for a base word list that is empty or holds only blank strings, the
\* generator yields nothing and write_output returns 0, the file created and empty.
C10_EmptyInput ==
    (pc = "done" /\ cfg # <<>> /\ AllBlank(cfg.base_words)) =>
        /\ yielded = <<>>
        /\ written = 0
        /\ fexists
        /\ file = <<>>

C10_Witness ==
    /\ pc = "done"
    /\ cfg # <<>>
    /\ cfg.base_words = << <<" ">> >>
    /\ cfg.min_len = 0
    /\ fexists
    /\ file = <<>>
    /\ written = 0

====
